---- MODULE Spec2Model ----
(***************************************************************************)
(* Model of the admission webhooks (image-validator.py, validate-pod.py)   *)
(* and of the CronTab controller (crontab-controller.py).                  *)
(*                                                                         *)
(* Strings are sequences of tokens.  A token is either one of the          *)
(* characters the code looks for ("/", ":", ".") or a word that contains   *)
(* none of them, so that split() and the `in` tests of the code act on the *)
(* token sequence exactly as they act on the characters of the string.     *)
(* JSON values are tagged records: Null, Bool(b), Str(s), List(s), Obj(f), *)
(* where f is a function from the keys that are present to their values.   *)
(***************************************************************************)
EXTENDS Integers, Sequences, FiniteSets, TLC

VARIABLES
  img_in,     \* rule check: the image string handed to an image rule
  ctr_in,     \* rule check: the container dict handed to a container rule
  rule_out,   \* rule check: what the rule returned
  body,       \* webhook: the body of POST /validate
  response,   \* webhook: what validate() produced for the body
  pc,         \* controller: where main() is
  events,     \* controller: the events the watch stream has yielded so far
  job,        \* controller: the arguments of the create_cronjob call in progress
  calls       \* controller: the create_namespaced_cron_job calls issued so far

vars == <<img_in, ctr_in, rule_out, body, response, pc, events, job, calls>>

----------------------------------------------------------------------------
(* Bounds of the model *)

MaxImageLen == 5
MaxContainers == 2
MaxEvents == 3

----------------------------------------------------------------------------
(* JSON values and the Python operations the code applies to them *)

Null == [t |-> "null"]
Bool(b) == [t |-> "bool", v |-> b]
Str(s) == [t |-> "str", v |-> s]
List(s) == [t |-> "list", v |-> s]
Obj(f) == [t |-> "obj", v |-> f]
EmptyDict == Obj(<<>>)

\* bool(x) of Python
Truthy(x) ==
  CASE x.t = "null" -> FALSE
    [] x.t = "bool" -> x.v
    [] x.t = "str" -> x.v # <<>>
    [] x.t = "list" -> x.v # <<>>
    [] x.t = "obj" -> DOMAIN x.v # {}

IsDict(x) == x.t = "obj"

\* d.get(key, default) for a dict d
Get(d, key, default) == IF key \in DOMAIN d.v THEN d.v[key] ELSE default

\* key in d, for a dict d
HasKey(d, key) == key \in DOMAIN d.v

\* str(x) inside an f-string
Format(x) ==
  CASE x.t = "str" -> x.v
    [] x.t = "null" -> <<"None">>
    [] x.t = "bool" -> IF x.v THEN <<"True">> ELSE <<"False">>
    [] OTHER -> <<"<object>">>

\* sub in s, for a one-character sub
Contains(s, ch) == \E i \in 1..Len(s) : s[i] = ch

RECURSIVE Split(_, _)
\* s.split(sep): the pieces of s between the occurrences of sep
Split(s, sep) ==
  IF ~Contains(s, sep) THEN <<s>>
  ELSE LET i == CHOOSE k \in 1..Len(s) : s[k] = sep /\ \A m \in 1..(k-1) : s[m] # sep
       IN <<SubSeq(s, 1, i - 1)>> \o Split(SubSeq(s, i + 1, Len(s)), sep)

RECURSIVE Join(_, _)
\* sep.join(parts)
Join(parts, sep) ==
  IF parts = <<>> THEN <<>>
  ELSE IF Len(parts) = 1 THEN parts[1]
  ELSE parts[1] \o sep \o Join(Tail(parts), sep)

\* repr of a list of strings, as an f-string prints it
Repr(strings) ==
  <<"[">> \o Join([i \in 1..Len(strings) |-> <<"'">> \o strings[i] \o <<"'">>], <<", ">>) \o <<"]">>

----------------------------------------------------------------------------
(* image-validator.py: configuration *)

APPROVED_REGISTRIES ==
  << <<"docker", ".", "io">>,
     <<"gcr", ".", "io">>,
     <<"k8s", ".", "gcr", ".", "io">>,
     <<"quay", ".", "io">>,
     <<"registry", ".", "k8s", ".", "io">>,
     <<"ghcr", ".", "io">> >>

BLOCKED_TAGS == << <<"latest">> >>

InList(x, list) == \E i \in 1..Len(list) : list[i] = x

\* what a rule hands back: a (flag, message) tuple, or an exception
Ret(flag, msg) == [raised |-> FALSE, flag |-> flag, msg |-> msg, err |-> ""]
Raises(e) == [raised |-> TRUE, flag |-> FALSE, msg |-> <<>>, err |-> e]

Prefix(container_name) == <<"Container '">> \o container_name \o <<"': ">>

----------------------------------------------------------------------------
(* image-validator.py: the two image rules.  image is the token sequence   *)
(* of the image string (<<>> when the container has none).                 *)

\* the registry rule without its len(parts) > 1 test
MisreadSingleSegmentAsRegistry(image, container_name) ==
  IF image = <<>> THEN Ret(FALSE, Prefix(container_name) \o <<"Image is required">>)
  ELSE LET registry == Split(image, "/")[1]
       IN IF (Contains(registry, ".") \/ Contains(registry, ":"))
             /\ ~InList(registry, APPROVED_REGISTRIES)
          THEN Ret(FALSE, Prefix(container_name) \o <<"Registry '">> \o registry
                          \o <<"' not in approved list: ">> \o Repr(APPROVED_REGISTRIES))
          ELSE Ret(TRUE, <<>>)

validate_image_registry(image, container_name) ==
  IF image = <<>> THEN Ret(FALSE, Prefix(container_name) \o <<"Image is required">>)
  ELSE LET parts == Split(image, "/")
       IN IF Len(parts) > 1
             /\ (Contains(parts[1], ".") \/ Contains(parts[1], ":"))
             /\ ~InList(parts[1], APPROVED_REGISTRIES)
          THEN Ret(FALSE, Prefix(container_name) \o <<"Registry '">> \o parts[1]
                          \o <<"' not in approved list: ">> \o Repr(APPROVED_REGISTRIES))
          ELSE Ret(TRUE, <<>>)

\* the tag the rule resolves: "latest" unless the string holds a ':'
ResolvedTag(image) ==
  IF Contains(image, ":")
  THEN LET pieces == Split(image, ":") IN pieces[Len(pieces)]
  ELSE <<"latest">>

\* flag TRUE means the tag is blocked
validate_image_tag(image, container_name) ==
  IF image = <<>> THEN Ret(FALSE, Prefix(container_name) \o <<"Image is required">>)
  ELSE LET tag == ResolvedTag(image)
       IN IF InList(tag, BLOCKED_TAGS)
          THEN Ret(TRUE, Prefix(container_name) \o <<"Tag '">> \o tag
                         \o <<"' is blocked. Use specific version tags.">>)
          ELSE Ret(FALSE, <<>>)

----------------------------------------------------------------------------
(* image-validator.py: the two container rules.  container is a dict.      *)
(* Calling .get on a value that is not a dict raises AttributeError.       *)

\* the names of the entries of d (a JSON value) that are missing or falsy;
\* keys is the sequence of <<key, label>> pairs in the order the code tests them
MissingIn(d, keys) ==
  LET miss(i) == IF Truthy(Get(d, keys[i][1], Null)) THEN <<>> ELSE <<keys[i][2]>>
  IN miss(1) \o miss(2)

validate_resources(container, container_name) ==
  LET resources == Get(container, "resources", EmptyDict) IN
  IF ~IsDict(resources) THEN Raises("AttributeError")
  ELSE
  LET limits == Get(resources, "limits", EmptyDict) IN
  IF ~IsDict(limits) THEN Raises("AttributeError")
  ELSE
  LET requests == Get(resources, "requests", EmptyDict) IN
  IF ~IsDict(requests) THEN Raises("AttributeError")
  ELSE
  LET errors == MissingIn(limits, << <<"cpu", <<"CPU limits">> >>, <<"memory", <<"memory limits">> >> >>)
                \o MissingIn(requests, << <<"cpu", <<"CPU requests">> >>, <<"memory", <<"memory requests">> >> >>)
  IN IF errors # <<>>
     THEN Ret(FALSE, Prefix(container_name) \o <<"Missing ">> \o Join(errors, <<", ">>))
     ELSE Ret(TRUE, <<>>)

\* the three tests of validate_security_context, in the order of the code:
\* the requirement each failing test appends to errors
SecurityErrors(security_context) ==
  (IF ~Truthy(Get(security_context, "runAsNonRoot", Bool(FALSE)))
   THEN << <<"runAsNonRoot=true">> >> ELSE <<>>)
  \o (IF Truthy(Get(security_context, "allowPrivilegeEscalation", Bool(TRUE)))
      THEN << <<"allowPrivilegeEscalation=false">> >> ELSE <<>>)
  \o (IF ~Truthy(Get(security_context, "readOnlyRootFilesystem", Bool(FALSE)))
      THEN << <<"readOnlyRootFilesystem=true">> >> ELSE <<>>)

validate_security_context(container, container_name) ==
  LET security_context == Get(container, "securityContext", EmptyDict) IN
  IF ~IsDict(security_context) THEN Raises("AttributeError")
  ELSE LET errors == SecurityErrors(security_context)
       IN IF errors # <<>>
          THEN Ret(FALSE, Prefix(container_name) \o <<"Required ">> \o Join(errors, <<", ">>))
          ELSE Ret(TRUE, <<>>)

\* container.get("name", "unknown"), as the f-strings print it
ContainerName(container) == Format(Get(container, "name", Str(<<"unknown">>)))

\* container.get("image", ""), as the image rules read it: a value that is
\* not a string is only ever tested with `not image`, where None acts as ""
ContainerImage(container) ==
  LET v == Get(container, "image", Str(<<>>)) IN IF v.t = "str" THEN v.v ELSE <<>>

----------------------------------------------------------------------------
(* Inputs *)

\* a key that is left out of a dict
Absent == [t |-> "absent"]

\* the dict with the given <<key, value>> pairs, leaving out the Absent ones
Dict(pairs) ==
  LET present == {i \in 1..Len(pairs) : pairs[i][2] # Absent}
  IN Obj([k \in {pairs[i][1] : i \in present} |->
            pairs[CHOOSE i \in present : pairs[i][1] = k][2]])

ImageAlphabet == {"docker", "io", "app", "latest", ".", ":", "/", "@"}

\* the image strings the spec names, and the two forms of a reference that
\* carries a registry port or a digest
SampleImages ==
  { <<"myapp">>,
    <<"docker", ".", "io", "/", "library", "/", "nginx", ":", "1", ".", "21">>,
    <<"evil", ".", "io", "/", "malware", ":", "1", ".", "0">>,
    <<"host", ":", "5000", "/", "app">>,
    <<"repo", "@", "sha256", ":", "abc">>,
    <<"docker", ".", "io", "/", "app", "@", "sha256", ":", "abc">> }

ImageStrings ==
  UNION {[1..n -> ImageAlphabet] : n \in 0..MaxImageLen} \cup SampleImages

OptionalBools == {Absent, Null, Bool(TRUE), Bool(FALSE)}

SecurityContexts ==
  {Absent, Null}
  \cup { Dict(<< <<"runAsNonRoot", r>>, <<"allowPrivilegeEscalation", a>>,
                 <<"readOnlyRootFilesystem", f>> >>) :
         r \in OptionalBools, a \in OptionalBools, f \in OptionalBools }

Quantity == Str(<<"100m">>)
FullResources ==
  Dict(<< <<"limits", Dict(<< <<"cpu", Quantity>>, <<"memory", Quantity>> >>)>>,
          <<"requests", Dict(<< <<"cpu", Quantity>>, <<"memory", Quantity>> >>)>> >>)
OnlyCpuLimit == Dict(<< <<"limits", Dict(<< <<"cpu", Quantity>> >>)>> >>)

ResourceSpecs ==
  { Absent, Null, FullResources, OnlyCpuLimit,
    Dict(<< <<"limits", Null>>, <<"requests", EmptyDict>> >>),
    Dict(<< <<"limits", Dict(<< <<"cpu", Str(<<>>)>>, <<"memory", Quantity>> >>)>>,
            <<"requests", Dict(<< <<"cpu", Null>>, <<"memory", Quantity>> >>)>> >>) }

\* the containers handed to the container rules on their own
RuleContainers ==
  { Dict(<< <<"name", Str(<<"web">>)>>, <<"resources", r>>, <<"securityContext", sc>> >>) :
    r \in ResourceSpecs, sc \in SecurityContexts }

----------------------------------------------------------------------------
(* The rules on their own: one rule applied to one input *)

NoOut == [rule |-> "none", out |-> Ret(FALSE, <<>>)]
NoResponse == [handler |-> "none", out |-> [kind |-> "none"]]

ControllerIdle ==
  /\ pc = "Subscribing" /\ events = <<>> /\ job = <<>> /\ calls = <<>>

CheckRegistry ==
  /\ rule_out = NoOut
  /\ rule_out' = [rule |-> "registry", out |-> validate_image_registry(img_in, <<"web">>)]
  /\ UNCHANGED <<img_in, ctr_in, body, response, pc, events, job, calls>>

CheckTag ==
  /\ rule_out = NoOut
  /\ rule_out' = [rule |-> "tag", out |-> validate_image_tag(img_in, <<"web">>)]
  /\ UNCHANGED <<img_in, ctr_in, body, response, pc, events, job, calls>>

CheckResources ==
  /\ rule_out = NoOut
  /\ rule_out' = [rule |-> "resources", out |-> validate_resources(ctr_in, ContainerName(ctr_in))]
  /\ UNCHANGED <<img_in, ctr_in, body, response, pc, events, job, calls>>

CheckSecurity ==
  /\ rule_out = NoOut
  /\ rule_out' = [rule |-> "security",
                  out |-> validate_security_context(ctr_in, ContainerName(ctr_in))]
  /\ UNCHANGED <<img_in, ctr_in, body, response, pc, events, job, calls>>

ImageInit ==
  /\ img_in \in ImageStrings
  /\ ctr_in = EmptyDict
  /\ rule_out = NoOut
  /\ body = Null /\ response = NoResponse
  /\ ControllerIdle

ImageNext == CheckRegistry \/ CheckTag

ImageSpec == ImageInit /\ [][ImageNext]_vars

ContainerInit ==
  /\ img_in = <<>>
  /\ ctr_in \in RuleContainers
  /\ rule_out = NoOut
  /\ body = Null /\ response = NoResponse
  /\ ControllerIdle

ContainerNext == CheckResources \/ CheckSecurity

ContainerSpec == ContainerInit /\ [][ContainerNext]_vars

----------------------------------------------------------------------------
(* image-validator.py: validate().  What the handler produces is either an  *)
(* AdmissionReview response or an exception that leaves the handler (Flask  *)
(* then answers 500).  rules_run counts the rule calls made.                *)

Response(uid, allowed, message, rules_run) ==
  [kind |-> "response", uid |-> uid, allowed |-> allowed, message |-> message,
   rules_run |-> rules_run, err |-> ""]
Escaped(e) ==
  [kind |-> "exception", uid |-> Null, allowed |-> FALSE, message |-> <<>>,
   rules_run |-> 0, err |-> e]

\* the body get_json() cannot parse: it raises before req is bound
Unparseable == [t |-> "unparseable"]

\* "request" in req, for the kinds of value that support `in`
In(key, x) ==
  CASE x.t = "obj" -> key \in DOMAIN x.v
    [] x.t = "list" -> \E i \in 1..Len(x.v) : x.v[i] = Str(<<key>>)
    [] x.t = "str" -> Contains(x.v, key)

InvalidRequest == Response(Str(<<>>), FALSE, <<"Invalid request">>, 0)

\* the except clause: it reads req again to recover the uid
ExceptHandler(req, e, rules_run) ==
  IF ~IsDict(req) THEN Escaped("AttributeError")
  ELSE LET r == Get(req, "request", EmptyDict)
       IN IF ~IsDict(r) THEN Escaped("AttributeError")
          ELSE Response(Get(r, "uid", Str(<<>>)), FALSE, <<"Validation error: ", e>>, rules_run)

\* what a stretch of the try block hands on: an exception, a response to
\* return at once, or the values it bound
Raised(e, n) == [raised |-> TRUE, err |-> e, rules_run |-> n]

\* the namespace test left out
NeverExempt(pod_namespace, exempt_namespace) == FALSE

\* pod_namespace == "<the webhook's namespace>"
IsExempt(pod_namespace, exempt_namespace) == pod_namespace = Str(exempt_namespace)

\* uid, pod_metadata and pod_namespace of the request, and the exemption of
\* the webhook's own namespace.  validate-pod.py holds the same lines with
\* its own namespace.
Prologue(req, exempt_namespace) ==
  IF ~IsDict(req) THEN Raised("TypeError", 0)
  ELSE LET request == req.v["request"] IN
  IF ~IsDict(request) THEN Raised("TypeError", 0)
  ELSE IF ~HasKey(request, "uid") THEN Raised("KeyError", 0)
  ELSE IF ~HasKey(request, "object") THEN Raised("KeyError", 0)
  ELSE LET object == request.v["object"] IN
  IF ~IsDict(object) THEN Raised("AttributeError", 0)
  ELSE LET pod_metadata == Get(object, "metadata", EmptyDict) IN
  IF ~IsDict(pod_metadata) THEN Raised("AttributeError", 0)
  ELSE LET pod_namespace == Get(pod_metadata, "namespace", Str(<<>>)) IN
  IF IsExempt(pod_namespace, exempt_namespace)
  THEN [raised |-> FALSE, skip |-> TRUE, uid |-> request.v["uid"], object |-> object]
  ELSE [raised |-> FALSE, skip |-> FALSE, uid |-> request.v["uid"], object |-> object]

Skipped(uid, exempt_namespace) ==
  Response(uid, TRUE, <<"Skipped validation in ">> \o exempt_namespace \o <<" namespace">>, 0)

\* init_containers + containers
InitFirst(containers, init_containers) == init_containers \o containers

\* containers + init_containers
all_containers(containers, init_containers) == containers \o init_containers

\* the tag flag read like the flags of the other three rules
TagErrorsInverted(tag) == IF ~tag.flag THEN <<tag.msg>> ELSE <<>>

\* if tag_blocked: validation_errors.append(tag_msg)
TagErrors(tag) == IF tag.flag THEN <<tag.msg>> ELSE <<>>

\* the body of the for loop for one container: the messages it appends
CheckContainer(container) ==
  IF ~IsDict(container) THEN Raised("AttributeError", 0)
  ELSE
  LET container_name == ContainerName(container)
      img == ContainerImage(container)
      registry == validate_image_registry(img, container_name)
      tag == validate_image_tag(img, container_name)
      resources == validate_resources(container, container_name)
      security == validate_security_context(container, container_name)
  IN IF resources.raised THEN Raised(resources.err, 3)
     ELSE IF security.raised THEN Raised(security.err, 4)
     ELSE [raised |-> FALSE, rules_run |-> 4,
           errors |-> (IF ~registry.flag THEN <<registry.msg>> ELSE <<>>)
                      \o TagErrors(tag)
                      \o (IF ~resources.flag THEN <<resources.msg>> ELSE <<>>)
                      \o (IF ~security.flag THEN <<security.msg>> ELSE <<>>)]

RECURSIVE ValidateEach(_, _, _)
\* the for loop over all_containers: validation_errors, or the exception
ValidateEach(list, validation_errors, rules_run) ==
  IF list = <<>>
  THEN [raised |-> FALSE, errors |-> validation_errors, rules_run |-> rules_run]
  ELSE LET one == CheckContainer(Head(list))
       IN IF one.raised THEN Raised(one.err, rules_run + one.rules_run)
          ELSE ValidateEach(Tail(list), validation_errors \o one.errors,
                            rules_run + one.rules_run)

\* " | ".join(validation_errors)
JoinErrors(validation_errors) == Join(validation_errors, <<" | ">>)

IMAGE_EXEMPT_NAMESPACE == <<"image-validator-demo">>

validate(req) ==
  IF req = Unparseable THEN Escaped("UnboundLocalError")
  ELSE IF ~Truthy(req) THEN InvalidRequest
  ELSE IF req.t = "bool" THEN ExceptHandler(req, "TypeError", 0)
  ELSE IF ~In("request", req) THEN InvalidRequest
  ELSE
  LET p == Prologue(req, IMAGE_EXEMPT_NAMESPACE) IN
  IF p.raised THEN ExceptHandler(req, p.err, 0)
  ELSE IF p.skip THEN Skipped(p.uid, IMAGE_EXEMPT_NAMESPACE)
  ELSE IF ~HasKey(p.object, "spec") THEN ExceptHandler(req, "KeyError", 0)
  ELSE LET pod_spec == p.object.v["spec"] IN
  IF ~IsDict(pod_spec) THEN ExceptHandler(req, "AttributeError", 0)
  ELSE
  LET containers == Get(pod_spec, "containers", List(<<>>))
      init_containers == Get(pod_spec, "initContainers", List(<<>>))
  IN
  IF containers.t # "list" \/ init_containers.t # "list"
  THEN ExceptHandler(req, "TypeError", 0)
  ELSE
  LET loop == ValidateEach(all_containers(containers.v, init_containers.v), <<>>, 0) IN
  IF loop.raised THEN ExceptHandler(req, loop.err, loop.rules_run)
  ELSE IF loop.errors # <<>>
       THEN Response(p.uid, FALSE, JoinErrors(loop.errors), loop.rules_run)
       ELSE Response(p.uid, TRUE, <<"All validations passed">>, loop.rules_run)

----------------------------------------------------------------------------
(* validate-pod.py: validate() *)

POD_EXEMPT_NAMESPACE == <<"webhook-demo">>

RECURSIVE FirstRootContainer(_)
\* the for loop: the first container that does not set runAsNonRoot stops it
FirstRootContainer(containers) ==
  IF containers = <<>> THEN [raised |-> FALSE, allowed |-> TRUE, msg |-> <<"Pod is valid">>]
  ELSE LET c == Head(containers) IN
  IF ~IsDict(c) THEN Raised("AttributeError", 0)
  ELSE LET sc == Get(c, "securityContext", EmptyDict) IN
  IF ~IsDict(sc) THEN Raised("AttributeError", 0)
  ELSE IF ~Truthy(Get(sc, "runAsNonRoot", Bool(FALSE)))
       THEN IF ~HasKey(c, "name") THEN Raised("KeyError", 0)
            ELSE [raised |-> FALSE, allowed |-> FALSE,
                  msg |-> <<"Container '">> \o Format(c.v["name"])
                          \o <<"' must set runAsNonRoot=true">>]
       ELSE FirstRootContainer(Tail(containers))

validate_pod(req) ==
  IF req = Unparseable THEN Escaped("UnboundLocalError")
  ELSE IF ~Truthy(req) THEN InvalidRequest
  ELSE IF req.t = "bool" THEN ExceptHandler(req, "TypeError", 0)
  ELSE IF ~In("request", req) THEN InvalidRequest
  ELSE
  LET p == Prologue(req, POD_EXEMPT_NAMESPACE) IN
  IF p.raised THEN ExceptHandler(req, p.err, 0)
  ELSE IF p.skip THEN Skipped(p.uid, POD_EXEMPT_NAMESPACE)
  ELSE IF ~HasKey(p.object, "spec") THEN ExceptHandler(req, "KeyError", 0)
  ELSE LET pod_spec == p.object.v["spec"] IN
  IF ~IsDict(pod_spec) THEN ExceptHandler(req, "AttributeError", 0)
  ELSE LET containers == Get(pod_spec, "containers", List(<<>>)) IN
  IF containers.t # "list" THEN ExceptHandler(req, "TypeError", 0)
  ELSE LET loop == FirstRootContainer(containers.v) IN
  IF loop.raised THEN ExceptHandler(req, loop.err, 0)
  ELSE Response(p.uid, loop.allowed, loop.msg, 0)

----------------------------------------------------------------------------
(* The bodies POST /validate is given *)

GoodImage == <<"docker", ".", "io", "/", "app", ":", "v1">>
GoodSecurity ==
  Dict(<< <<"runAsNonRoot", Bool(TRUE)>>, <<"allowPrivilegeEscalation", Bool(FALSE)>>,
          <<"readOnlyRootFilesystem", Bool(TRUE)>> >>)

Container(name, img, resources, security_context) ==
  Dict(<< <<"name", name>>, <<"image", img>>, <<"resources", resources>>,
          <<"securityContext", security_context>> >>)

\* a container that passes every rule, and containers that differ from it in
\* one field or in all of them
PodContainers ==
  { Container(n, Str(GoodImage), FullResources, GoodSecurity) :
      n \in {Str(<<"web">>), Str(<<"init">>), Absent} }
  \cup { Container(Str(<<"web">>), i, FullResources, GoodSecurity) :
      i \in {Absent, Str(<<"myapp">>),
             Str(<<"evil", ".", "io", "/", "malware", ":", "1", ".", "0">>),
             Str(<<"docker", ".", "io", "/", "app", "@", "sha256", ":", "abc">>)} }
  \cup { Container(Str(<<"web">>), Str(GoodImage), r, GoodSecurity) :
      r \in {Null, OnlyCpuLimit} }
  \cup { Container(Str(<<"init">>), Str(GoodImage), FullResources, sc) :
      sc \in {Absent,
              Dict(<< <<"runAsNonRoot", Bool(TRUE)>>, <<"allowPrivilegeEscalation", Null>>,
                      <<"readOnlyRootFilesystem", Bool(TRUE)>> >>)} }
  \cup { Container(Str(<<"init">>), Str(<<"evil", ".", "io", "/", "app">>), Absent, Absent) }

ContainerLists == UNION {[1..n -> PodContainers] : n \in 0..MaxContainers}

\* containers and initContainers hold at most MaxContainers containers together
PodSpecs ==
  {Absent, Null, EmptyDict,
   Dict(<< <<"containers", Null>> >>),
   Dict(<< <<"containers", List(<<>>)>>, <<"initContainers", Null>> >>),
   Dict(<< <<"containers", List(<<Null>>)>> >>)}
  \cup UNION { { Dict(<< <<"containers", List(cs)>>, <<"initContainers", List(ics)>> >>) :
                   ics \in {l \in ContainerLists : Len(l) <= MaxContainers - Len(cs)} } :
                 cs \in ContainerLists }

Namespaces ==
  {Absent, Str(<<"default">>), Str(IMAGE_EXEMPT_NAMESPACE), Str(POD_EXEMPT_NAMESPACE)}

Metadatas ==
  {Absent}
  \cup {Dict(<< <<"namespace", ns>>, <<"name", Str(<<"pod">>)>> >>) : ns \in Namespaces}

Uids == {Absent, Str(<<"u1">>)}

Objects ==
  {Absent, Null, Dict(<< <<"metadata", Null>>, <<"spec", EmptyDict>> >>)}
  \cup {Dict(<< <<"metadata", m>>, <<"spec", sp>> >>) : m \in Metadatas, sp \in PodSpecs}

Bodies ==
  {Unparseable, Null, EmptyDict, Bool(TRUE), Str(<<"request">>),
   List(<< Str(<<"request">>) >>), List(<< Str(<<"other">>) >>),
   Dict(<< <<"other", Null>> >>),
   Dict(<< <<"request", Null>> >>),
   Dict(<< <<"request", Str(<<"abc">>)>> >>)}
  \cup {Dict(<< <<"request", Dict(<< <<"uid", u>>, <<"object", o>> >>)>> >>) :
        u \in Uids, o \in Objects}

----------------------------------------------------------------------------
(* The webhooks: one body handed to one of the two handlers *)

Validate ==
  /\ response = NoResponse
  /\ response' = [handler |-> "image-validator", out |-> validate(body)]
  /\ UNCHANGED <<img_in, ctr_in, rule_out, body, pc, events, job, calls>>

ValidatePod ==
  /\ response = NoResponse
  /\ response' = [handler |-> "validate-pod", out |-> validate_pod(body)]
  /\ UNCHANGED <<img_in, ctr_in, rule_out, body, pc, events, job, calls>>

Init ==
  /\ img_in = <<>> /\ ctr_in = EmptyDict /\ rule_out = NoOut
  /\ body \in Bodies
  /\ response = NoResponse
  /\ ControllerIdle

Next == Validate \/ ValidatePod

Spec == Init /\ [][Next]_vars

----------------------------------------------------------------------------
(* crontab-controller.py *)

CronTab(name, cronSpec, message) ==
  Dict(<< <<"metadata", Dict(<< <<"name", name>> >>)>>,
          <<"spec", Dict(<< <<"cronSpec", cronSpec>>, <<"message", message>> >>)>> >>)

EveryMinute == Str(<<"*/1 * * * *">>)
Midnight == Str(<<"0 0 * * *">>)

\* the objects the watch delivers: two CronTabs, and objects that lack
\* spec.message, spec and metadata.name
WatchedObjects ==
  { CronTab(Str(<<"demo">>), EveryMinute, Str(<<"hi">>)),
    CronTab(Str(<<"backup">>), Midnight, Str(<<"bye">>)),
    CronTab(Str(<<"demo">>), EveryMinute, Absent),
    Dict(<< <<"metadata", Dict(<< <<"name", Str(<<"demo">>)>> >>)>> >>),
    Dict(<< <<"metadata", EmptyDict>>,
            <<"spec", Dict(<< <<"cronSpec", EveryMinute>>, <<"message", Str(<<"hi">>)>> >>)>> >>) }

EventTypes == {"ADDED", "MODIFIED", "DELETED"}

WatchEvents == [type : EventTypes, object : WatchedObjects]

CreateOutcomes == {"created", "conflict", "error"}

\* the job named after the CronTab itself
NameWithoutSuffix(cron_name) == Format(cron_name)

\* f"{cron_name}-job"
JobName(cron_name) == Format(cron_name) \o <<"-job">>

\* the V1beta1CronJob create_cronjob builds, with the namespace it is sent to
create_cronjob(cron_name, cron_expr, msg) ==
  [namespace |-> <<"default">>,
   name |-> JobName(cron_name),
   schedule |-> cron_expr,
   restart_policy |-> <<"OnFailure">>,
   container |-> <<"echo">>,
   image |-> <<"busybox">>,
   args |-> << <<"/bin/sh">>, <<"-c">>, <<"echo ">> \o Format(msg) >>]

\* create_cronjob without its try/except
TerminateOnFailure(outcome) == IF outcome = "created" THEN "Streaming" ELSE "Terminated"

\* where main() is once create_cronjob returns: its try/except keeps every
\* failure of the create call inside
AfterCreate(outcome) == "Streaming"

\* cr['metadata']['name'], cr['spec']['cronSpec'], cr['spec']['message']
Fields(event) ==
  LET cr == event.object IN
  IF ~HasKey(cr, "metadata") THEN Raised("KeyError", 0)
  ELSE IF ~HasKey(cr.v["metadata"], "name") THEN Raised("KeyError", 0)
  ELSE IF ~HasKey(cr, "spec") THEN Raised("KeyError", 0)
  ELSE IF ~HasKey(cr.v["spec"], "cronSpec") THEN Raised("KeyError", 0)
  ELSE IF ~HasKey(cr.v["spec"], "message") THEN Raised("KeyError", 0)
  ELSE [raised |-> FALSE,
        name |-> cr.v["metadata"].v["name"],
        cronSpec |-> cr.v["spec"].v["cronSpec"],
        message |-> cr.v["spec"].v["message"]]

\* the loop body with the type tested before the fields are read
TypeBeforeFields(event) ==
  IF event.type # "ADDED" THEN [pc |-> "Streaming", job |-> <<>>]
  ELSE LET f == Fields(event)
       IN IF f.raised THEN [pc |-> "Terminated", job |-> <<>>]
          ELSE [pc |-> "Creating", job |-> <<f.name, f.cronSpec, f.message>>]

\* the body of the for loop up to the call of create_cronjob
Iteration(event) ==
  LET f == Fields(event)
  IN IF f.raised THEN [pc |-> "Terminated", job |-> <<>>]
     ELSE IF event.type = "ADDED"
          THEN [pc |-> "Creating", job |-> <<f.name, f.cronSpec, f.message>>]
          ELSE [pc |-> "Streaming", job |-> <<>>]

\* main() up to the for loop
Subscribe ==
  /\ pc = "Subscribing"
  /\ pc' = "Streaming"
  /\ UNCHANGED <<img_in, ctr_in, rule_out, body, response, events, job, calls>>

\* the stream yields an event and the loop body runs up to create_cronjob
ReadEvent ==
  /\ pc = "Streaming"
  /\ Len(events) < MaxEvents
  /\ \E event \in WatchEvents :
       /\ events' = Append(events, event)
       /\ pc' = Iteration(event).pc
       /\ job' = Iteration(event).job
  /\ UNCHANGED <<img_in, ctr_in, rule_out, body, response, calls>>

\* create_cronjob: the create call and what the cluster answers
CreateCronJob ==
  /\ pc = "Creating"
  /\ \E outcome \in CreateOutcomes :
       /\ calls' = Append(calls, [event |-> Len(events),
                                  body |-> create_cronjob(job[1], job[2], job[3]),
                                  outcome |-> outcome])
       /\ pc' = AfterCreate(outcome)
  /\ job' = <<>>
  /\ UNCHANGED <<img_in, ctr_in, rule_out, body, response, events>>

\* the stream ends or fails: the for loop is left and main() returns or raises
StreamClose ==
  /\ pc = "Streaming"
  /\ pc' = "Terminated"
  /\ UNCHANGED <<img_in, ctr_in, rule_out, body, response, events, job, calls>>

ControllerInit ==
  /\ img_in = <<>> /\ ctr_in = EmptyDict /\ rule_out = NoOut
  /\ body = Null /\ response = NoResponse
  /\ ControllerIdle

ControllerNext == Subscribe \/ ReadEvent \/ CreateCronJob \/ StreamClose

ControllerSpec == ControllerInit /\ [][ControllerNext]_vars

----------------------------------------------------------------------------
(* Properties of the image rules, under ImageSpec *)

\* sub occurs in s as a run of consecutive tokens
IsInfix(sub, s) ==
  \E i \in 0..(Len(s) - Len(sub)) : SubSeq(s, i + 1, i + Len(sub)) = sub

\* the tokens of s before its first sep (all of s when it has none)
Before(s, sep) ==
  IF \E k \in 1..Len(s) : s[k] = sep
  THEN SubSeq(s, 1, (CHOOSE k \in 1..Len(s) : s[k] = sep /\ \A m \in 1..(k-1) : s[m] # sep) - 1)
  ELSE s

\* the tokens of s after its last sep (all of s when it has none)
AfterLast(s, sep) ==
  IF \E k \in 1..Len(s) : s[k] = sep
  THEN SubSeq(s, (CHOOSE k \in 1..Len(s) : s[k] = sep /\ \A m \in (k+1)..Len(s) : s[m] # sep) + 1,
              Len(s))
  ELSE s

HasMarker(segment) == \E i \in 1..Len(segment) : segment[i] \in {".", ":"}
Approved(segment) == \E i \in 1..Len(APPROVED_REGISTRIES) : APPROVED_REGISTRIES[i] = segment

\* an image reference names its tag after the ':' of its last path segment,
\* a digest ("@...") set aside: a ':' of the registry host or of the digest
\* is no tag
LastSegment(s) == AfterLast(Before(s, "@"), "/")
HasExplicitTag(s) == \E i \in 1..Len(LastSegment(s)) : LastSegment(s)[i] = ":"
ExplicitTag(s) == AfterLast(LastSegment(s), ":")
Blocked(tag) == \E i \in 1..Len(BLOCKED_TAGS) : BLOCKED_TAGS[i] = tag

\* C4, as claimed: with "latest" blocked, validate_image_tag blocks every image
\* that carries no explicit tag (registry-with-port and digest forms included),
\* and blocks an image with an explicit tag exactly when that tag is blocked.
C4_UntaggedAlwaysBlocked ==
  (rule_out.rule = "tag" /\ img_in # <<>>) =>
    /\ ~rule_out.out.raised
    /\ IF HasExplicitTag(img_in)
       THEN rule_out.out.flag <=> Blocked(ExplicitTag(img_in))
       ELSE rule_out.out.flag

\* C5, as claimed: validate_image_registry fails exactly when the registry
\* segment (the leading path segment of an image with several segments, when it
\* holds '.' or ':') is not approved; every image without one passes.
C5_FailsOnlyOnUnapprovedRegistry ==
  rule_out.rule = "registry" =>
    LET detected == Before(img_in, "/") # img_in /\ HasMarker(Before(img_in, "/"))
    IN ~rule_out.out.flag <=> (detected /\ ~Approved(Before(img_in, "/")))

\* C5, amended: validate_image_registry fails exactly when the image is empty,
\* or the image holds a '/' and the segment before the first '/' holds '.' or
\* ':' and is not approved; in the second case the message names that segment
\* and every approved registry.  Every other image passes, an image of a single
\* segment included, whatever it holds.
C5_RegistryRule ==
  rule_out.rule = "registry" =>
    LET segment == Before(img_in, "/")
        unapproved == segment # img_in /\ HasMarker(segment) /\ ~Approved(segment)
    IN /\ ~rule_out.out.raised
       /\ ~rule_out.out.flag <=> (img_in = <<>> \/ unapproved)
       /\ unapproved =>
            /\ IsInfix(<<"Registry '">> \o segment, rule_out.out.msg)
            /\ \A i \in 1..Len(APPROVED_REGISTRIES) :
                 IsInfix(<<"'">> \o APPROVED_REGISTRIES[i] \o <<"'">>, rule_out.out.msg)
       /\ img_in = <<>> => IsInfix(<<"Image is required">>, rule_out.out.msg)

\* C5 witness: an image of several segments was failed for its registry, and
\* (in another state) a single-segment image holding ':' was passed
C5_Witness ==
  /\ rule_out.rule = "registry"
  /\ ~rule_out.out.flag
  /\ img_in = <<"evil", ".", "io", "/", "malware", ":", "1", ".", "0">>

----------------------------------------------------------------------------
(* Properties of the container rules, under ContainerSpec *)

IsSet(d, key, b) == key \in DOMAIN d.v /\ d.v[key] = Bool(b)

\* C6, as claimed: validate_security_context passes exactly when runAsNonRoot
\* is true, allowPrivilegeEscalation is false and readOnlyRootFilesystem is
\* true; a field that is absent or null counts as unsafe and is named in the
\* message.
C6_SecurityFailClosed ==
  (rule_out.rule = "security" /\ "securityContext" \in DOMAIN ctr_in.v
     /\ ctr_in.v["securityContext"].t = "obj") =>
    LET sc == ctr_in.v["securityContext"]
        safe_r == IsSet(sc, "runAsNonRoot", TRUE)
        safe_a == IsSet(sc, "allowPrivilegeEscalation", FALSE)
        safe_f == IsSet(sc, "readOnlyRootFilesystem", TRUE)
    IN /\ rule_out.out.flag <=> (safe_r /\ safe_a /\ safe_f)
       /\ ~safe_r => IsInfix(<<"runAsNonRoot=true">>, rule_out.out.msg)
       /\ ~safe_a => IsInfix(<<"allowPrivilegeEscalation=false">>, rule_out.out.msg)
       /\ ~safe_f => IsInfix(<<"readOnlyRootFilesystem=true">>, rule_out.out.msg)

----------------------------------------------------------------------------
(* Properties of the webhooks, under Spec *)

FromImageValidator == response.handler = "image-validator"
FromEitherHandler == response.handler # "none"

\* the envelope down to the pod: request and request.object are dicts
HasPod(b) ==
  /\ b.t = "obj" /\ "request" \in DOMAIN b.v
  /\ b.v["request"].t = "obj" /\ "object" \in DOMAIN b.v["request"].v
  /\ b.v["request"].v["object"].t = "obj"
PodOf(b) == b.v["request"].v["object"]
HasUid(b) == "uid" \in DOMAIN b.v["request"].v

\* the pod's namespace is the given one
InNamespace(b, namespace) ==
  /\ HasPod(b)
  /\ "metadata" \in DOMAIN PodOf(b).v
  /\ PodOf(b).v["metadata"].t = "obj"
  /\ "namespace" \in DOMAIN PodOf(b).v["metadata"].v
  /\ PodOf(b).v["metadata"].v["namespace"] = Str(namespace)

\* the list under key of the pod spec ([] when the key is left out); only used
\* where IsAdmissionRequest holds
ListOf(b, key) ==
  IF key \in DOMAIN PodOf(b).v["spec"].v THEN PodOf(b).v["spec"].v[key].v ELSE <<>>

\* every required field is there and has the type the review protocol gives it
IsAdmissionRequest(b) ==
  /\ HasPod(b) /\ HasUid(b)
  /\ "metadata" \in DOMAIN PodOf(b).v => PodOf(b).v["metadata"].t = "obj"
  /\ "spec" \in DOMAIN PodOf(b).v /\ PodOf(b).v["spec"].t = "obj"
  /\ \A key \in {"containers", "initContainers"} :
       key \in DOMAIN PodOf(b).v["spec"].v =>
         /\ PodOf(b).v["spec"].v[key].t = "list"
         /\ \A i \in 1..Len(PodOf(b).v["spec"].v[key].v) :
              PodOf(b).v["spec"].v[key].v[i].t = "obj"

\* the four rules on one container: the messages of those that do not pass
RegistryFailure(c) ==
  LET r == validate_image_registry(ContainerImage(c), ContainerName(c))
  IN IF r.flag THEN <<>> ELSE <<r.msg>>
TagFailure(c) ==
  LET r == validate_image_tag(ContainerImage(c), ContainerName(c))
  IN IF r.flag THEN <<r.msg>> ELSE <<>>
ResourcesFailure(c) ==
  LET r == validate_resources(c, ContainerName(c)) IN IF r.flag THEN <<>> ELSE <<r.msg>>
SecurityFailure(c) ==
  LET r == validate_security_context(c, ContainerName(c)) IN IF r.flag THEN <<>> ELSE <<r.msg>>

\* a rule that raises does not pass either
FailsSomeRule(c) ==
  RegistryFailure(c) \o TagFailure(c) \o ResourcesFailure(c) \o SecurityFailure(c) # <<>>

SomeRuleRaises(c) ==
  \/ validate_resources(c, ContainerName(c)).raised
  \/ validate_security_context(c, ContainerName(c)).raised

SomeContainerFails(b) ==
  \E key \in {"containers", "initContainers"} :
    \E i \in 1..Len(ListOf(b, key)) : FailsSomeRule(ListOf(b, key)[i])

\* C1, as claimed: for every admission request, image-validator denies exactly
\* when some rule fails for some container, regular or init.
C1_DeniedIffSomeRuleFails ==
  (FromImageValidator /\ IsAdmissionRequest(body)) =>
    /\ response.out.kind = "response"
    /\ ~response.out.allowed <=> SomeContainerFails(body)

\* C1, amended: for every admission request whose namespace is not the exempt
\* one, image-validator denies exactly when some rule fails (or raises) for some
\* container, regular or init.
C1_DeniedIffSomeRuleFailsOutsideExempt ==
  (FromImageValidator /\ IsAdmissionRequest(body)
     /\ ~InNamespace(body, IMAGE_EXEMPT_NAMESPACE)) =>
    /\ response.out.kind = "response"
    /\ ~response.out.allowed <=> SomeContainerFails(body)

\* C1 witness: a request denied for an init container alone
C1_Witness ==
  /\ FromImageValidator /\ IsAdmissionRequest(body)
  /\ ~InNamespace(body, IMAGE_EXEMPT_NAMESPACE)
  /\ ~response.out.allowed
  /\ ListOf(body, "containers") # <<>>
  /\ \A i \in 1..Len(ListOf(body, "containers")) : ~FailsSomeRule(ListOf(body, "containers")[i])
  /\ \E i \in 1..Len(ListOf(body, "initContainers")) :
       FailsSomeRule(ListOf(body, "initContainers")[i])

ExemptNamespaceOf(handler) ==
  IF handler = "image-validator" THEN IMAGE_EXEMPT_NAMESPACE ELSE POD_EXEMPT_NAMESPACE

SkipMessage(handler) ==
  <<"Skipped validation in ">> \o ExemptNamespaceOf(handler) \o <<" namespace">>

\* C2, as claimed: a request in the webhook's exempt namespace is allowed with
\* the fixed skip message, whatever its containers, and no rule is run.
C2_ExemptAlwaysAllowed ==
  (FromEitherHandler /\ InNamespace(body, ExemptNamespaceOf(response.handler))) =>
    /\ response.out.kind = "response"
    /\ response.out.allowed
    /\ response.out.message = SkipMessage(response.handler)
    /\ response.out.rules_run = 0

\* C2, amended: a request that carries request.uid and lies in the webhook's
\* exempt namespace is allowed with the fixed skip message and its uid,
\* whatever its spec, containers and initContainers, and no rule is run; without
\* request.uid it is denied like any other request that lacks a required field.
C2_ExemptWithUidAllowed ==
  (FromEitherHandler /\ InNamespace(body, ExemptNamespaceOf(response.handler))) =>
    /\ response.out.kind = "response"
    /\ response.out.allowed <=> HasUid(body)
    /\ HasUid(body) =>
         /\ response.out.message = SkipMessage(response.handler)
         /\ response.out.uid = body.v["request"].v["uid"]
    /\ response.out.rules_run = 0

\* C2 witness: an exempt request with a container that fails a rule is allowed
C2_Witness ==
  /\ FromImageValidator /\ IsAdmissionRequest(body)
  /\ InNamespace(body, IMAGE_EXEMPT_NAMESPACE)
  /\ SomeContainerFails(body)
  /\ response.out.allowed

\* a required field (request, uid, object, spec) is missing from a JSON object
LacksRequiredField(b) ==
  /\ b.t = "obj"
  /\ \/ "request" \notin DOMAIN b.v
     \/ /\ b.v["request"].t = "obj"
        /\ \/ ~HasUid(b)
           \/ "object" \notin DOMAIN b.v["request"].v
           \/ /\ b.v["request"].v["object"].t = "obj"
              /\ "spec" \notin DOMAIN PodOf(b).v

\* request.uid when the body holds one, else the empty string
RecoverableUid(b) ==
  IF b.t = "obj" /\ "request" \in DOMAIN b.v /\ b.v["request"].t = "obj" /\ HasUid(b)
  THEN b.v["request"].v["uid"] ELSE Str(<<>>)

\* C3, as claimed: whatever the body, validate() returns an AdmissionReview
\* decision and no exception leaves it; when a required field is missing the
\* decision is a denial that carries request.uid if it can be recovered and
\* the empty string otherwise.
C3_AlwaysADecision ==
  FromEitherHandler =>
    /\ response.out.kind = "response"
    /\ LacksRequiredField(body) =>
         /\ ~response.out.allowed
         /\ response.out.uid = RecoverableUid(body)

RECURSIVE Failures(_)
\* the failures of the containers of a list, in the order of the list and,
\* for one container, in the order registry, tag, resources, security
Failures(list) ==
  IF list = <<>> THEN <<>>
  ELSE LET c == Head(list)
       IN RegistryFailure(c) \o TagFailure(c) \o ResourcesFailure(c) \o SecurityFailure(c)
          \o Failures(Tail(list))

NoRuleRaises(b) ==
  \A key \in {"containers", "initContainers"} :
    \A i \in 1..Len(ListOf(b, key)) : ~SomeRuleRaises(ListOf(b, key)[i])

Evaluated(b) ==
  /\ FromImageValidator /\ IsAdmissionRequest(b)
  /\ ~InNamespace(b, IMAGE_EXEMPT_NAMESPACE)
  /\ NoRuleRaises(b)

ContainerCount(b) == Len(ListOf(b, "containers")) + Len(ListOf(b, "initContainers"))

----------------------------------------------------------------------------
(* Properties of the controller, under ControllerSpec *)

\* the object lacks metadata.name, spec.cronSpec or spec.message
Undecodable(event) ==
  LET o == event.object.v
  IN \/ "metadata" \notin DOMAIN o
     \/ "name" \notin DOMAIN o["metadata"].v
     \/ "spec" \notin DOMAIN o
     \/ "cronSpec" \notin DOMAIN o["spec"].v
     \/ "message" \notin DOMAIN o["spec"].v

\* the place in the stream of the first event with such an object
\* (past the end when there is none)
FirstUndecodable ==
  IF \E i \in 1..Len(events) : Undecodable(events[i])
  THEN CHOOSE i \in 1..Len(events) :
         Undecodable(events[i]) /\ \A k \in 1..(i-1) : ~Undecodable(events[k])
  ELSE Len(events) + 1

\* the places of the ADDED events among the first n events whose create call
\* has returned
AddedUpTo(n) ==
  {i \in 1..n : events[i].type = "ADDED" /\ ~(pc = "Creating" /\ i = Len(events))}

\* the k-th smallest element of a set of numbers
RECURSIVE Nth(_, _)
Nth(S, k) ==
  LET least == CHOOSE x \in S : \A y \in S : x <= y
  IN IF k = 1 THEN least ELSE Nth(S \ {least}, k - 1)

\* the call is the one create call the ADDED event at place i asks for
CallFor(call, i) ==
  LET o == events[i].object.v IN
  /\ call.event = i
  /\ ~Undecodable(events[i])
  /\ call.body.name = o["metadata"].v["name"].v \o <<"-job">>
  /\ call.body.schedule = o["spec"].v["cronSpec"]
  /\ call.body.restart_policy = <<"OnFailure">>
  /\ \E a \in 1..Len(call.body.args) :
       IsInfix(<<"echo ">> \o o["spec"].v["message"].v, call.body.args[a])

\* C8, as claimed: for any event stream the create calls are, in stream
\* order, one per ADDED event, each for the job "<name>-job" with the
\* resource's schedule, restart policy OnFailure and "echo <message>" among
\* its arguments, issued before the next event is read; MODIFIED and DELETED
\* events produce none.
C8_OneCallPerAdded ==
  LET added == AddedUpTo(Len(events))
  IN /\ Len(calls) = Cardinality(added)
     /\ \A k \in 1..Len(calls) : k <= Cardinality(added) => CallFor(calls[k], Nth(added, k))

\* C8, amended: the create calls are, in stream order, one per ADDED event
\* that comes before the first event whose object lacks metadata.name,
\* spec.cronSpec or spec.message, each for the job "<name>-job" with the
\* resource's schedule, restart policy OnFailure and "echo <message>" among
\* its arguments, issued before the next event is read; MODIFIED and DELETED
\* events, and every event from that first one on, produce none.
C8_OneCallPerDecodedAdded ==
  LET added == AddedUpTo(FirstUndecodable - 1)
  IN /\ Len(calls) = Cardinality(added)
     /\ \A k \in 1..Len(calls) : CallFor(calls[k], Nth(added, k))

\* C8 witness: two ADDED events with an event of another type between them
\* have each had their create call
C8_Witness ==
  /\ Len(events) = 3 /\ Len(calls) = 2 /\ pc = "Streaming"
  /\ events[1].type = "ADDED" /\ events[2].type = "DELETED" /\ events[3].type = "ADDED"
  /\ calls[1].body.name = <<"demo", "-job">>
  /\ calls[2].body.name = <<"backup", "-job">>

Failed(call) == call.outcome # "created"

C10_UndecodableTerminates ==
  /\ [](\A i \in 1..Len(events) :
          Undecodable(events[i]) =>
            /\ i = Len(events)
            /\ pc = "Terminated"
            /\ \A k \in 1..Len(calls) : calls[k].event < i)
  /\ [][pc # "Terminated" /\ pc' # "Subscribing"]_vars

\* C10 witness: the loop ended on a MODIFIED event without spec.message,
\* after a create call for an earlier ADDED event
C10_Witness ==
  /\ pc = "Terminated"
  /\ Len(events) = 2 /\ Len(calls) = 1
  /\ events[2].type = "MODIFIED"
  /\ Undecodable(events[2])

====
